---- MODULE Spec2Model ----
(***************************************************************************)
(* Order lifecycle and inventory ledger of the e-commerce backend:         *)
(* product_repository.py, order_repository.py, order_service.py,           *)
(* inventory_service.py, notification_service.py, payment_service.py,      *)
(* models.py, validators.py, utils.py.                                     *)
(*                                                                         *)
(* The tables are the process-local dictionaries of the repositories. A    *)
(* repository function is an operator from the table (and its arguments)   *)
(* to the table after the call and the value returned; a service function  *)
(* is an action over the tables. Every action records the call in ret and  *)
(* the tables it started from in before, so that what a call returned and  *)
(* what it changed can be stated of the state it leaves.                   *)
(*                                                                         *)
(* Money is counted in thousandths of a currency unit (10 = 0.01), so that *)
(* a price with three decimal places can be told from one with two; the    *)
(* rounding of binary floating point is not modelled.                      *)
(* generate_id draws from uuid4 and is taken to return an unused id; the   *)
(* run follows one order from creation on (OrderIdSeq), next to an id no   *)
(* order has.                                                              *)
(*                                                                         *)
(* Spec follows the order service over stocked products. The other         *)
(* specifications follow one part of the program each from its own first   *)
(* state: SpecInventory the reorder alerts, SpecCatalog the product table  *)
(* and its SKU index, SpecConcurrent two callers inside the repository     *)
(* functions, SpecPayment the payments, SpecPure functions of their input. *)
(***************************************************************************)
EXTENDS Integers, Sequences, FiniteSets, TLC

\* ------------------------------------------------------------------ bounds

\* Largest stock a product is created with / restocked to by a direct ledger call.
MaxStock == 2
\* Longest item list passed to create_order.
MaxItems == 2

\* ------------------------------------------------------------ input domains

\* Ids of the products in the product table, and one id no product has.
Products == {"p1", "p2"}
ProductIds == Products \cup {"p0"}

\* u1 is an active user, u2 an inactive one, u0 is in no table.
UserIds == {"u1", "u2", "u0"}

\* Ids generate_id("ord") hands out, in the order it hands them out.
OrderIdSeq == <<"o1">>
OrderIds == {OrderIdSeq[i] : i \in 1..Len(OrderIdSeq)}

Currencies == {"USD", "XXX"}
\* Items a caller passes to create_order. Prices: 150 = 0.15, 1000 = 1.00,
\* 0 = 0.00, 25 = 0.025 (three decimal places). Quantity 0 is below
\* validate_quantity's range.
ItemInputs ==
    {[product_id |-> "p1", quantity |-> 1, price |-> 150],
     [product_id |-> "p1", quantity |-> 2, price |-> 150],
     [product_id |-> "p2", quantity |-> 1, price |-> 1000]}
    \cup {[product_id |-> "p1", quantity |-> 0, price |-> 150],
          [product_id |-> "p1", quantity |-> 1, price |-> 0],
          [product_id |-> "p1", quantity |-> 1, price |-> 25],
          [product_id |-> "p0", quantity |-> 1, price |-> 150]}
\* quantity_change of a direct update_stock call.
Deltas == {-2, -1, 1, 2}

Statuses == {"created", "pending", "processing", "shipped", "delivered",
             "cancelled", "returned"}

VARIABLES
    users_db,          \* user_repository._users_db: id -> [active]
    products_db,       \* product_repository._products_db: id -> product
    orders_db,         \* order_repository._orders_db: id -> order
    user_order_index,  \* order_repository._user_order_index: user id -> <<order id>>
    issued,            \* number of ids generate_id has handed out
    ret,               \* the last call: its name, arguments and return value
    before,            \* the tables as they were when the last call began
    queue,             \* notification_service._queue: <<entry>>
    sku_index,         \* product_repository._sku_index: sku -> product id
    calls,             \* per concurrent caller: the call it is in, its locals, its result
    payments_db,       \* payment_service._payments_db: id -> payment
    notifications_db   \* notification_service._notifications_db: id -> notification

vars == <<users_db, products_db, orders_db, user_order_index, issued, ret, before,
          queue, sku_index, calls, payments_db, notifications_db>>

\* The tables no function of order_service.py or order_repository.py reads or
\* writes.
side_tables == <<queue, sku_index, calls, payments_db, notifications_db>>

\* ------------------------------------------------------------------ helpers

RECURSIVE SumSeq(_)
SumSeq(s) == IF s = <<>> THEN 0 ELSE Head(s) + SumSeq(Tail(s))

\* All sequences over S of length 0..n.
SeqsUpTo(S, n) == UNION {[1..k -> S] : k \in 0..n}

\* --------------------------------------------------------------- validators

\* str.upper() on the currency codes in use.
upper(s) == IF s = "usd" THEN "USD" ELSE s

get_valid_currencies == {"USD", "EUR", "GBP", "JPY", "PLN", "CAD"}

validate_currency(currency) == upper(currency) \in get_valid_currencies

\* Number of decimal places left once trailing zeros are stripped
\* (f"{value:.10f}".split(".")[1].rstrip("0")), for a value in thousandths.
decimal_part_len(value) ==
    IF value % 1000 = 0 THEN 0
    ELSE IF value % 100 = 0 THEN 1
    ELSE IF value % 10 = 0 THEN 2
    ELSE 3

validate_decimal_places(value, max_places) == decimal_part_len(value) <= max_places

\* min_val = 0.01 and max_val = 999999.99, in thousandths.
AmountMin == 10
AmountMax == 999999990

validate_amount(amount) ==
    IF amount < AmountMin \/ amount > AmountMax
    THEN FALSE
    ELSE validate_decimal_places(amount, 2)

QuantityMax == 10000

\* The range check with the lower bound included.
validate_quantity_from_zero(quantity) ==
    quantity \in Int /\ 0 <= quantity /\ quantity <= QuantityMax

validate_quantity(quantity) == quantity \in Int /\ 0 < quantity /\ quantity <= QuantityMax

\* ------------------------------------------------------- product_repository

\* find_product_by_id(product_id) is not None
check_product_exists(db, product_id) == product_id \in DOMAIN db

\* update_stock with the "new_stock < 0" check left out.
update_stock_unchecked(db, product_id, quantity_change) ==
    IF ~check_product_exists(db, product_id)
    THEN [db |-> db, none |-> TRUE, value |-> 0]
    ELSE LET new_stock == db[product_id].stock + quantity_change
         IN  [db |-> [db EXCEPT ![product_id].stock = new_stock],
              none |-> FALSE, value |-> new_stock]

\* Returns the table after the call and the returned value (none: it returned None).
update_stock(db, product_id, quantity_change) ==
    IF ~check_product_exists(db, product_id)
    THEN [db |-> db, none |-> TRUE, value |-> 0]
    ELSE LET new_stock == db[product_id].stock + quantity_change
         IN  IF new_stock < 0
             THEN [db |-> db, none |-> TRUE, value |-> 0]
             ELSE [db |-> [db EXCEPT ![product_id].stock = new_stock],
                   none |-> FALSE, value |-> new_stock]

\* ----------------------------------------------------------------- models

create_order_item(item) ==
    [product_id |-> item.product_id, quantity |-> item.quantity,
     price |-> item.price, subtotal |-> item.quantity * item.price]

create_order_model(id, user_id, items, currency) ==
    LET order_items == [i \in 1..Len(items) |-> create_order_item(items[i])]
    IN  [id |-> id, user_id |-> user_id, items |-> order_items,
         total |-> SumSeq([i \in 1..Len(order_items) |-> order_items[i].subtotal]),
         currency |-> currency, status |-> "created"]

\* --------------------------------------------------------- order_repository

\* The table with a cancelled order allowed back to pending.
valid_transitions_reopen ==
    [s \in Statuses |->
        CASE s = "created"    -> {"pending", "cancelled"}
          [] s = "pending"    -> {"processing", "cancelled"}
          [] s = "processing" -> {"shipped", "cancelled"}
          [] s = "shipped"    -> {"delivered"}
          [] s = "delivered"  -> {"returned"}
          [] s = "cancelled"  -> {"pending"}
          [] OTHER            -> {}]

\* The table with a refund of a pending order let through.
valid_transitions_refund_pending ==
    [s \in Statuses |->
        CASE s = "created"    -> {"pending", "cancelled"}
          [] s = "pending"    -> {"processing", "cancelled", "returned"}
          [] s = "processing" -> {"shipped", "cancelled"}
          [] s = "shipped"    -> {"delivered"}
          [] s = "delivered"  -> {"returned"}
          [] OTHER            -> {}]

valid_transitions ==
    [s \in Statuses |->
        CASE s = "created"    -> {"pending", "cancelled"}
          [] s = "pending"    -> {"processing", "cancelled"}
          [] s = "processing" -> {"shipped", "cancelled"}
          [] s = "shipped"    -> {"delivered"}
          [] s = "delivered"  -> {"returned"}
          [] OTHER            -> {}]

\* The check with cancellation allowed from every status but cancelled itself.
is_valid_status_transition_cancel_any(current, target) ==
    \/ target \in valid_transitions[current]
    \/ target = "cancelled" /\ current # "cancelled"

is_valid_status_transition(current, target) == target \in valid_transitions[current]

\* The status update without the transition check.
update_order_status_any(db, order_id, status) ==
    IF order_id \notin DOMAIN db
    THEN [db |-> db, none |-> TRUE]
    ELSE [db |-> [db EXCEPT ![order_id].status = status], none |-> FALSE]

\* Returns the table after the call; none: it returned None.
update_order_status(db, order_id, status) ==
    IF order_id \notin DOMAIN db
    THEN [db |-> db, none |-> TRUE]
    ELSE IF ~is_valid_status_transition(db[order_id].status, status)
    THEN [db |-> db, none |-> TRUE]
    ELSE [db |-> [db EXCEPT ![order_id].status = status], none |-> FALSE]

index_order_by_user(index, order) ==
    LET user_id == order.user_id
        old == IF user_id \in DOMAIN index THEN index[user_id] ELSE <<>>
    IN  [u \in DOMAIN index \cup {user_id} |->
            IF u = user_id THEN Append(old, order.id) ELSE index[u]]

create_order_record(db, order) ==
    [o \in DOMAIN db \cup {order.id} |-> IF o = order.id THEN order ELSE db[o]]

get_order_items(db, order_id) ==
    IF order_id \notin DOMAIN db THEN <<>> ELSE db[order_id].items

\* The order total with the price, not the subtotal, of the items after the first.
calculate_order_total_first_subtotal(db, order_id) ==
    LET items == get_order_items(db, order_id)
    IN  SumSeq([i \in 1..Len(items) |->
                   IF i = 1 THEN items[i].subtotal ELSE items[i].price])

calculate_order_total(db, order_id) ==
    LET items == get_order_items(db, order_id)
    IN  SumSeq([i \in 1..Len(items) |-> items[i].subtotal])

\* ------------------------------------------------------------ order_service

\* The reason of the first check that fails, "" when the items are valid.
RECURSIVE validate_items_from(_, _, _)
validate_items_from(pdb, items, i) ==
    IF i > Len(items) THEN ""
    ELSE IF ~validate_quantity(items[i].quantity) THEN "Invalid quantity"
    ELSE IF ~validate_amount(items[i].price) THEN "Invalid price"
    ELSE IF ~check_product_exists(pdb, items[i].product_id) THEN "Product not found"
    ELSE validate_items_from(pdb, items, i + 1)

validate_order_items(pdb, items) ==
    IF items = <<>> THEN "No items" ELSE validate_items_from(pdb, items, 1)

\* The reservation loop stopping at the first rejected adjustment.
RECURSIVE reserve_order_stock_stop(_, _)
reserve_order_stock_stop(pdb, items) ==
    IF items = <<>> THEN pdb
    ELSE LET r == update_stock(pdb, Head(items).product_id, -Head(items).quantity)
         IN  IF r.none THEN pdb ELSE reserve_order_stock_stop(r.db, Tail(items))

\* The product table after update_stock(product_id, -quantity) for every item in turn.
RECURSIVE reserve_order_stock(_, _)
reserve_order_stock(pdb, items) ==
    IF items = <<>> THEN pdb
    ELSE reserve_order_stock(
             update_stock(pdb, Head(items).product_id, -Head(items).quantity).db,
             Tail(items))

\* The release loop returning after the first item.
release_order_stock_first(pdb, items) ==
    IF items = <<>> THEN pdb
    ELSE update_stock(pdb, Head(items).product_id, Head(items).quantity).db

\* The product table after update_stock(product_id, +quantity) for every item in turn.
RECURSIVE release_order_stock(_, _)
release_order_stock(pdb, items) ==
    IF items = <<>> THEN pdb
    ELSE release_order_stock(
             update_stock(pdb, Head(items).product_id, Head(items).quantity).db,
             Tail(items))

\* ------------------------------------------------------------------- state

NoCall == [op |-> "none"]

\* Callers that may run a repository function at the same time.
Threads == {"t1", "t2"}
NoCalls == [t \in Threads |-> [pc |-> "idle"]]

Tables == [products |-> products_db, orders |-> orders_db, index |-> user_order_index,
           queue |-> queue, skus |-> sku_index, payments |-> payments_db,
           notifications |-> notifications_db]

Init ==
    /\ users_db = [u \in {"u1", "u2"} |-> [active |-> (u = "u1")]]
    /\ products_db \in [Products -> [stock : 0..MaxStock]]
    /\ orders_db = <<>>
    /\ user_order_index = <<>>
    /\ issued = 0
    /\ queue = <<>>
    /\ sku_index = <<>>
    /\ calls = NoCalls
    /\ payments_db = <<>>
    /\ notifications_db = <<>>
    /\ ret = NoCall
    /\ before = Tables

\* generate_id("ord"): an id no order has had.
generate_id == OrderIdSeq[issued + 1]

\* create_order's early return with an error: nothing is written.
create_order_error(code) ==
    /\ ret' = [op |-> "create_order", code |-> code]
    /\ before' = Tables
    /\ UNCHANGED <<side_tables, users_db, products_db, orders_db, user_order_index,
                   issued>>

create_order(user_id, items, currency) ==
    IF user_id \notin DOMAIN users_db THEN create_order_error("USER_NOT_FOUND")
    ELSE IF ~users_db[user_id].active THEN create_order_error("USER_INACTIVE")
    ELSE IF ~validate_currency(currency) THEN create_order_error("BAD_CURRENCY")
    ELSE IF validate_order_items(products_db, items) # ""
    THEN create_order_error("INVALID_ITEMS")
    ELSE /\ issued < Len(OrderIdSeq)
         /\ LET order == create_order_model(generate_id, user_id, items, currency)
            IN  /\ orders_db' = create_order_record(orders_db, order)
                /\ user_order_index' = index_order_by_user(user_order_index, order)
                /\ products_db' = reserve_order_stock(products_db, order.items)
                /\ ret' = [op |-> "create_order", code |-> "success",
                           order_id |-> order.id]
         /\ issued' = issued + 1
         /\ before' = Tables
         /\ UNCHANGED <<side_tables, users_db>>

\* cancel_order's checks without the comparison of the caller with the owner.
cancel_order_code_any_user(odb, order_id, user_id) ==
    IF order_id \notin DOMAIN odb THEN "NOT_FOUND"
    ELSE IF update_order_status(odb, order_id, "cancelled").none THEN "INVALID_STATE"
    ELSE "success"

\* The code of cancel_order's response: the first check that fails, or success.
cancel_order_code(odb, order_id, user_id) ==
    IF order_id \notin DOMAIN odb THEN "NOT_FOUND"
    ELSE IF odb[order_id].user_id # user_id THEN "FORBIDDEN"
    ELSE IF update_order_status(odb, order_id, "cancelled").none THEN "INVALID_STATE"
    ELSE "success"

cancel_order(order_id, user_id) ==
    LET updated == update_order_status(orders_db, order_id, "cancelled")
        code == cancel_order_code(orders_db, order_id, user_id)
    IN  /\ IF code = "success"
           THEN /\ orders_db' = updated.db
                /\ products_db' = release_order_stock(products_db,
                                                      orders_db[order_id].items)
           ELSE UNCHANGED <<orders_db, products_db>>
        /\ ret' = [op |-> "cancel_order", code |-> code,
                   order_id |-> order_id, user_id |-> user_id]
        /\ before' = Tables
        /\ UNCHANGED <<side_tables, users_db, user_order_index, issued>>

process_refund(order_id, reason) ==
    LET updated == update_order_status(orders_db, order_id, "returned")
        code == IF order_id \notin DOMAIN orders_db THEN "NOT_FOUND"
                ELSE IF updated.none THEN "INVALID_STATE"
                ELSE "success"
    IN  /\ IF code = "success"
           THEN /\ orders_db' = updated.db
                /\ products_db' = release_order_stock(products_db,
                                                      orders_db[order_id].items)
           ELSE UNCHANGED <<orders_db, products_db>>
        /\ ret' = [op |-> "process_refund", code |-> code, order_id |-> order_id,
                   refunded |-> IF code = "success"
                                THEN calculate_order_total(orders_db', order_id)
                                ELSE 0,
                   reason |-> reason]
        /\ before' = Tables
        /\ UNCHANGED <<side_tables, users_db, user_order_index, issued>>

\* A direct call of the repository's status update (the fulfilment steps
\* processing, shipped and delivered have no service function).
call_update_order_status(order_id, status) ==
    LET updated == update_order_status(orders_db, order_id, status)
    IN  /\ orders_db' = updated.db
        /\ ret' = [op |-> "update_order_status", order_id |-> order_id,
                   status |-> status, none |-> updated.none]
        /\ before' = Tables
        /\ UNCHANGED <<side_tables, users_db, products_db, user_order_index, issued>>

\* A direct call of the ledger's adjustment (inventory restock or release).
call_update_stock(product_id, quantity_change) ==
    LET r == update_stock(products_db, product_id, quantity_change)
    IN  /\ r.value <= MaxStock
        /\ products_db' = r.db
        /\ ret' = [op |-> "update_stock", product_id |-> product_id,
                   quantity_change |-> quantity_change,
                   none |-> r.none, value |-> r.value]
        /\ before' = Tables
        /\ UNCHANGED <<side_tables, users_db, orders_db, user_order_index, issued>>

\* A direct call of the repository's create_order_record with an order that has
\* no items (create_order never stores one).
call_create_order_record(user_id, currency) ==
    /\ issued < Len(OrderIdSeq)
    /\ LET order == create_order_model(generate_id, user_id, <<>>, currency)
       IN  /\ orders_db' = create_order_record(orders_db, order)
           /\ user_order_index' = index_order_by_user(user_order_index, order)
           /\ ret' = [op |-> "create_order_record", order_id |-> order.id]
    /\ issued' = issued + 1
    /\ before' = Tables
    /\ UNCHANGED <<side_tables, users_db, products_db>>

\* validate_order's reason, "" when the order is valid.
validate_order(odb, order_id) ==
    IF order_id \notin DOMAIN odb THEN "Order not found"
    ELSE IF get_order_items(odb, order_id) = <<>> THEN "No items"
    ELSE ""

\* submit_order without validate_order's look at the items.
submit_order_code_unvalidated(odb, order_id) ==
    IF order_id \notin DOMAIN odb THEN "INVALID"
    ELSE IF update_order_status(odb, order_id, "pending").none THEN "STATE_ERROR"
    ELSE "success"

\* The code of submit_order's response.
submit_order_code(odb, order_id) ==
    IF validate_order(odb, order_id) # "" THEN "INVALID"
    ELSE IF update_order_status(odb, order_id, "pending").none THEN "STATE_ERROR"
    ELSE "success"

submit_order(order_id) ==
    LET code == submit_order_code(orders_db, order_id)
    IN  /\ orders_db' = IF code = "success"
                        THEN update_order_status(orders_db, order_id, "pending").db
                        ELSE orders_db
        /\ ret' = [op |-> "submit_order", code |-> code, order_id |-> order_id]
        /\ before' = Tables
        /\ UNCHANGED <<side_tables, users_db, products_db, user_order_index, issued>>

get_order_details(order_id) ==
    /\ ret' = IF order_id \notin DOMAIN orders_db
              THEN [op |-> "get_order_details", code |-> "NOT_FOUND",
                    order_id |-> order_id]
              ELSE [op |-> "get_order_details", code |-> "success",
                    order_id |-> order_id,
                    total |-> calculate_order_total(orders_db, order_id),
                    item_count |-> Len(orders_db[order_id].items)]
    /\ before' = Tables
    /\ UNCHANGED <<side_tables, users_db, products_db, orders_db, user_order_index,
                   issued>>

Next ==
    \/ /\ issued < Len(OrderIdSeq)
       /\ \E u \in UserIds, items \in SeqsUpTo(ItemInputs, MaxItems), c \in Currencies :
             create_order(u, items, c)
    \* Once the ids are used up only a rejected call can be followed.
    \/ /\ issued = Len(OrderIdSeq)
       /\ \E u \in UserIds, items \in SeqsUpTo(ItemInputs, 1), c \in Currencies :
             create_order(u, items, c)
    \/ \E o \in OrderIds \cup {"o0"}, u \in UserIds : cancel_order(o, u)
    \/ \E o \in OrderIds \cup {"o0"}, r \in {"damaged"} : process_refund(o, r)
    \/ \E o \in OrderIds \cup {"o0"}, s \in Statuses : call_update_order_status(o, s)
    \/ \E p \in ProductIds, d \in Deltas : call_update_stock(p, d)
    \/ \E u \in {"u1"}, c \in {"USD"} : call_create_order_record(u, c)
    \/ \E o \in OrderIds \cup {"o0"} : submit_order(o)
    \/ \E o \in OrderIds \cup {"o0"} : get_order_details(o)

Spec == Init /\ [][Next]_vars

\* updates mappings passed to update_order.
OrderUpdates == {[status |-> "delivered"], [total |-> 0]}

\* update_order looks the order up and returns it; updates is not applied.
update_order(order_id, updates) ==
    /\ ret' = [op |-> "update_order", order_id |-> order_id, updates |-> updates,
               code |-> IF order_id \in DOMAIN orders_db THEN "success"
                        ELSE "NOT_FOUND"]
    /\ before' = Tables
    /\ UNCHANGED <<side_tables, users_db, products_db, orders_db, user_order_index,
                   issued>>

\* The operations of order_service.py that write or claim to write an order,
\* called by a client that keeps calling: no direct repository call.
CallCreateOrder ==
    /\ issued < Len(OrderIdSeq)
    /\ \E u \in UserIds, items \in SeqsUpTo(ItemInputs, MaxItems), c \in Currencies :
          create_order(u, items, c)
CallSubmitOrder == \E o \in OrderIds \cup {"o0"} : submit_order(o)
CallCancelOrder == \E o \in OrderIds \cup {"o0"}, u \in UserIds : cancel_order(o, u)
CallProcessRefund ==
    \E o \in OrderIds \cup {"o0"}, r \in {"damaged"} : process_refund(o, r)
CallUpdateOrder ==
    \E o \in OrderIds \cup {"o0"}, updates \in OrderUpdates : update_order(o, updates)

NextService ==
    \/ CallCreateOrder
    \/ CallSubmitOrder
    \/ CallCancelOrder
    \/ CallProcessRefund
    \/ CallUpdateOrder

\* Each operation that can still change something is called again.
FairService ==
    /\ WF_vars(CallCreateOrder)
    /\ WF_vars(CallSubmitOrder)
    /\ WF_vars(CallCancelOrder)
    /\ WF_vars(CallProcessRefund)
    /\ WF_vars(CallUpdateOrder)

SpecService == Init /\ [][NextService]_vars /\ FairService

\* The order service with neither restock nor refund: orders are created,
\* submitted and cancelled.
NextLedger ==
    \/ /\ issued < Len(OrderIdSeq)
       /\ \E u \in UserIds, items \in SeqsUpTo(ItemInputs, MaxItems), c \in Currencies :
             create_order(u, items, c)
    \/ \E o \in OrderIds \cup {"o0"} : submit_order(o)
    \/ \E o \in OrderIds \cup {"o0"}, u \in UserIds : cancel_order(o, u)

SpecLedger == Init /\ [][NextLedger]_vars

\* ------------------------------------- notification_service, inventory_service

\* Longest notification queue followed.
MaxQueue == 2

\* Stocks around the reorder threshold that a product starts with.
InventoryStocks == {0, 1, 2, 10, 11, 12}
\* quantity of a reserve_stock call.
ReserveQuantities == {0, 1, 2}

create_notification_model(user_id, channel, subject, body) ==
    [user_id |-> user_id, channel |-> channel, subject |-> subject, body |-> body,
     read |-> FALSE]

\* e put into the priority-sorted s behind the entries of its priority.
RECURSIVE insert_by_priority_behind(_, _)
insert_by_priority_behind(e, s) ==
    IF s = <<>> THEN <<e>>
    ELSE IF Head(s).priority > e.priority THEN <<e>> \o s
    ELSE <<Head(s)>> \o insert_by_priority_behind(e, Tail(s))

\* e put into the priority-sorted s in front of the entries of its priority.
RECURSIVE insert_by_priority(_, _)
insert_by_priority(e, s) ==
    IF s = <<>> THEN <<e>>
    ELSE IF Head(s).priority >= e.priority THEN <<e>> \o s
    ELSE <<Head(s)>> \o insert_by_priority(e, Tail(s))

\* list.sort(key=priority): stable, entries of one priority keep their order.
RECURSIVE sort_queue(_)
sort_queue(q) ==
    IF q = <<>> THEN <<>> ELSE insert_by_priority(Head(q), sort_queue(Tail(q)))

\* The queue after queue_notification(notification, priority), whose entry
\* gets the id generate_id("q") returned.
queue_notification(q, id, notification, priority) ==
    sort_queue(Append(q, [id |-> id, notification |-> notification,
                          priority |-> priority, status |-> "queued"]))

\* The alert's subject carries product.get("name", "") and its body
\* product.get("sku", "") and product.get("stock", 0).
trigger_reorder_alert(q, id, product) ==
    queue_notification(q, id,
        create_notification_model("system", "email",
            [text |-> "Low stock",
             name |-> IF "name" \in DOMAIN product THEN product.name ELSE ""],
            [sku |-> IF "sku" \in DOMAIN product THEN product.sku ELSE "",
             stock |-> product.stock]),
        1)

ReorderThreshold == 10

\* The queue after check_reorder_needed(product_id).
check_reorder_needed(pdb, q, id, product_id) ==
    IF ~check_product_exists(pdb, product_id) THEN q
    ELSE IF pdb[product_id].stock <= ReorderThreshold
    THEN trigger_reorder_alert(q, id, pdb[product_id])
    ELSE q

\* check_availability(product_id, quantity)["data"]["available"] is True
check_availability(pdb, product_id, quantity) ==
    /\ check_product_exists(pdb, product_id)
    /\ pdb[product_id].stock >= quantity

reserve_stock(product_id, quantity) ==
    LET r == update_stock(products_db, product_id, -quantity)
        code == IF ~check_availability(products_db, product_id, quantity)
                THEN "OUT_OF_STOCK"
                ELSE IF r.none THEN "RESERVE_FAILED"
                ELSE "success"
    IN  /\ IF code = "success"
           THEN /\ products_db' = r.db
                \* generate_id("q"): an id no entry has; no entry leaves
                \* the queue while stock is reserved
                /\ queue' = check_reorder_needed(r.db, queue, Len(queue) + 1,
                                                 product_id)
           ELSE UNCHANGED <<products_db, queue>>
        /\ Len(queue') <= MaxQueue
        /\ ret' = [op |-> "reserve_stock", code |-> code, product_id |-> product_id,
                   quantity |-> quantity]
        /\ before' = Tables
        /\ UNCHANGED <<users_db, orders_db, user_order_index, issued, sku_index, calls,
                       payments_db, notifications_db>>

InitInventory ==
    /\ users_db = [u \in {"u1", "u2"} |-> [active |-> (u = "u1")]]
    /\ products_db \in [Products -> [stock : InventoryStocks]]
    /\ orders_db = <<>>
    /\ user_order_index = <<>>
    /\ issued = 0
    /\ queue = <<>>
    /\ sku_index = <<>>
    /\ calls = NoCalls
    /\ payments_db = <<>>
    /\ notifications_db = <<>>
    /\ ret = NoCall
    /\ before = Tables

NextInventory ==
    \/ /\ issued < Len(OrderIdSeq)
       /\ \E u \in UserIds, items \in SeqsUpTo(ItemInputs, MaxItems), c \in Currencies :
             create_order(u, items, c)
    \/ \E p \in ProductIds, q \in ReserveQuantities : reserve_stock(p, q)

SpecInventory == InitInventory /\ [][NextInventory]_vars

\* ------------------------------------------ notification_service: the queue

\* Most entries queue_notification is followed for.
MaxEnqueued == 3
\* Largest batch_size of a process_queue call.
MaxBatch == 2

QueueChannels == {"email", "sms", "push", "webhook", "fax"}
QueuePriorities == {1, 5}
BatchSizes == -1..MaxBatch

\* The n of lst[:n] as a count of leading entries: a negative n counts from
\* the end of the list.
SliceEnd(len, n) ==
    IF n >= 0 THEN (IF n < len THEN n ELSE len)
    ELSE IF len + n > 0 THEN len + n ELSE 0

\* dispatch_notification(notification)["success"]
dispatch_notification(notification) ==
    LET channel == IF "channel" \in DOMAIN notification
                   THEN notification.channel ELSE ""
    IN  channel \in {"email", "sms", "push", "webhook"}

\* The loop of process_queue over its batch: every entry is marked sent or
\* failed.
dispatch_batch(batch) ==
    [i \in 1..Len(batch) |->
        [batch[i] EXCEPT !.status =
            IF dispatch_notification(batch[i].notification) THEN "sent" ELSE "failed"]]

process_queue(batch_size) ==
    LET k == SliceEnd(Len(queue), batch_size)
        batch == dispatch_batch(SubSeq(queue, 1, k))
        kept == SelectSeq(batch, LAMBDA e : e.status # "sent")
    IN  /\ queue' = kept \o SubSeq(queue, k + 1, Len(queue))
        /\ ret' = [op |-> "process_queue", batch_size |-> batch_size,
                   processed |-> Len(batch) - Len(kept), errors |-> Len(kept),
                   remaining |-> Len(queue')]
        /\ before' = Tables
        /\ UNCHANGED <<users_db, products_db, orders_db, user_order_index, issued,
                       sku_index, calls, payments_db, notifications_db>>

\* queue_notification(notification, priority) called by a client.
call_queue_notification(notification, priority) ==
    /\ issued < MaxEnqueued
    /\ queue' = queue_notification(queue, issued + 1, notification, priority)
    /\ issued' = issued + 1
    /\ ret' = [op |-> "queue_notification", id |-> issued + 1,
               notification |-> notification, priority |-> priority]
    /\ before' = Tables
    /\ UNCHANGED <<users_db, products_db, orders_db, user_order_index, sku_index,
                   calls, payments_db, notifications_db>>

InitQueue ==
    /\ users_db = <<>>
    /\ products_db = <<>>
    /\ orders_db = <<>>
    /\ user_order_index = <<>>
    /\ issued = 0
    /\ queue = <<>>
    /\ sku_index = <<>>
    /\ calls = NoCalls
    /\ payments_db = <<>>
    /\ notifications_db = <<>>
    /\ ret = NoCall
    /\ before = Tables

CallQueueNotification ==
    \E c \in QueueChannels, p \in QueuePriorities :
        call_queue_notification([channel |-> c], p)
CallProcessQueue == \E b \in BatchSizes : process_queue(b)

NextQueue == CallQueueNotification \/ CallProcessQueue

\* A worker that keeps calling process_queue with each batch size it uses.
FairQueue == \A b \in 1..MaxBatch : WF_vars(process_queue(b))

SpecQueue == InitQueue /\ [][NextQueue]_vars /\ FairQueue

\* ------------------------------------------- product_repository: the catalog

\* Products a caller passes to create_product_record: dictionaries as
\* create_product_model builds them, and one with neither sku nor active.
CatalogProducts ==
    [id : Products, sku : {"A", "B"}, stock : {0, 2}, active : BOOLEAN]
    \cup {[id |-> "p2", stock |-> 1]}
\* updates mappings passed to update_product_record.
CatalogUpdates ==
    {[stock |-> -1], [stock |-> 1], [sku |-> "B"], [active |-> FALSE],
     [id |-> "p2"]}
Thresholds == {0, 1}

\* none: find_product_by_sku returned None.
find_product_by_sku(pdb, idx, sku) ==
    IF sku \notin DOMAIN idx THEN [none |-> TRUE]
    ELSE IF idx[sku] \notin DOMAIN pdb THEN [none |-> TRUE]
    ELSE [none |-> FALSE, value |-> pdb[idx[sku]]]

create_product_record(pdb, idx, product) ==
    [db |-> [i \in DOMAIN pdb \cup {product.id} |->
                IF i = product.id THEN product ELSE pdb[i]],
     index |-> IF "sku" \in DOMAIN product
               THEN [s \in DOMAIN idx \cup {product.sku} |->
                        IF s = product.sku THEN product.id ELSE idx[s]]
               ELSE idx]

\* Every key of updates but "id" is written into the product.
update_product_record(pdb, product_id, updates) ==
    IF ~check_product_exists(pdb, product_id) THEN [db |-> pdb, none |-> TRUE]
    ELSE LET product == pdb[product_id]
             keys == DOMAIN updates \ {"id"}
         IN  [db |-> [pdb EXCEPT ![product_id] =
                        [k \in DOMAIN product \cup keys |->
                            IF k \in keys THEN updates[k] ELSE product[k]]],
              none |-> FALSE]

delete_product_record(pdb, idx, product_id) ==
    IF ~check_product_exists(pdb, product_id)
    THEN [db |-> pdb, index |-> idx, value |-> FALSE]
    ELSE [db |-> [i \in DOMAIN pdb \ {product_id} |-> pdb[i]],
          index |-> IF "sku" \in DOMAIN pdb[product_id]
                    THEN [s \in DOMAIN idx \ {pdb[product_id].sku} |-> idx[s]]
                    ELSE idx,
          value |-> TRUE]

\* p.get("active", True)
filter_active_products(products) ==
    {product \in products : "active" \in DOMAIN product => product.active}

\* The products listed, as a set: the table has one product per id. products[:limit]
\* keeps the first limit products of the table's insertion order, which is not
\* followed here; the cut is made only when more than limit products are listed.
list_products(pdb, active_only, limit) ==
    LET all == {pdb[i] : i \in DOMAIN pdb}
        products == IF active_only THEN filter_active_products(all) ELSE all
    IN  IF Cardinality(products) <= limit THEN products
        ELSE CHOOSE cut \in SUBSET products : Cardinality(cut) = limit

\* The test with the threshold itself left out.
is_low_stock_below(product, threshold) == product.stock < threshold

is_low_stock(product, threshold) == product.stock <= threshold

ListLimit == 9999

get_low_stock(pdb, threshold) ==
    {product \in list_products(pdb, TRUE, ListLimit) : is_low_stock(product, threshold)}

call_create_product_record(product) ==
    LET r == create_product_record(products_db, sku_index, product)
    IN  /\ products_db' = r.db
        /\ sku_index' = r.index
        /\ ret' = [op |-> "create_product_record", product_id |-> product.id]
        /\ before' = Tables
        /\ UNCHANGED <<users_db, orders_db, user_order_index, issued, queue, calls,
                       payments_db, notifications_db>>

call_update_product_record(product_id, updates) ==
    LET r == update_product_record(products_db, product_id, updates)
    IN  /\ products_db' = r.db
        /\ ret' = [op |-> "update_product_record", product_id |-> product_id,
                   updates |-> updates, none |-> r.none]
        /\ before' = Tables
        /\ UNCHANGED <<users_db, orders_db, user_order_index, issued, queue, sku_index,
                       calls, payments_db, notifications_db>>

call_delete_product_record(product_id) ==
    LET r == delete_product_record(products_db, sku_index, product_id)
    IN  /\ products_db' = r.db
        /\ sku_index' = r.index
        /\ ret' = [op |-> "delete_product_record", product_id |-> product_id,
                   value |-> r.value]
        /\ before' = Tables
        /\ UNCHANGED <<users_db, orders_db, user_order_index, issued, queue, calls,
                       payments_db, notifications_db>>

call_get_low_stock(threshold) ==
    /\ ret' = [op |-> "get_low_stock", threshold |-> threshold,
               value |-> get_low_stock(products_db, threshold)]
    /\ before' = Tables
    /\ UNCHANGED <<users_db, products_db, orders_db, user_order_index, issued,
                   queue, sku_index, calls, payments_db, notifications_db>>

\* The catalog is empty until a product is created.
InitCatalog ==
    /\ users_db = [u \in {"u1", "u2"} |-> [active |-> (u = "u1")]]
    /\ products_db = <<>>
    /\ orders_db = <<>>
    /\ user_order_index = <<>>
    /\ issued = 0
    /\ queue = <<>>
    /\ sku_index = <<>>
    /\ calls = NoCalls
    /\ payments_db = <<>>
    /\ notifications_db = <<>>
    /\ ret = NoCall
    /\ before = Tables

NextCatalog ==
    \/ \E product \in CatalogProducts : call_create_product_record(product)
    \/ \E i \in ProductIds, updates \in CatalogUpdates :
          call_update_product_record(i, updates)
    \/ \E i \in ProductIds : call_delete_product_record(i)
    \/ \E i \in ProductIds, d \in {-1, 1} : call_update_stock(i, d)
    \/ \E threshold \in Thresholds : call_get_low_stock(threshold)

SpecCatalog == InitCatalog /\ [][NextCatalog]_vars

\* ------------------------------------- inventory_service: set and sync stock

\* new_quantity of update_inventory, and the quantity of an external item.
TargetQuantities == {-1, 0, 1, 3}
\* Items of an external inventory feed; one has no sku.
SyncItems == [sku : {"A", "B"}, quantity : TargetQuantities] \cup {[quantity |-> 1]}

\* update_stock's return value is dropped: the response reports new_quantity.
update_inventory(product_id, new_quantity) ==
    IF ~check_product_exists(products_db, product_id)
    THEN /\ ret' = [op |-> "update_inventory", code |-> "NOT_FOUND",
                    product_id |-> product_id]
         /\ before' = Tables
         /\ UNCHANGED <<side_tables, users_db, products_db, orders_db,
                        user_order_index, issued>>
    ELSE LET diff == new_quantity - products_db[product_id].stock
         IN  /\ products_db' = update_stock(products_db, product_id, diff).db
             /\ ret' = [op |-> "update_inventory", code |-> "success",
                        product_id |-> product_id, new_stock |-> new_quantity]
             /\ before' = Tables
             /\ UNCHANGED <<side_tables, users_db, orders_db, user_order_index,
                            issued>>

sync_single_product(item) ==
    LET found == IF "sku" \in DOMAIN item
                 THEN find_product_by_sku(products_db, sku_index, item.sku)
                 ELSE [none |-> TRUE]
    IN  /\ products_db' =
              IF found.none THEN products_db
              ELSE update_stock(products_db, found.value.id,
                                item.quantity - found.value.stock).db
        /\ ret' = [op |-> "sync_single_product", item |-> item,
                   value |-> ~found.none]
        /\ before' = Tables
        /\ UNCHANGED <<side_tables, users_db, orders_db, user_order_index, issued>>

NextSync ==
    \/ \E product \in CatalogProducts : call_create_product_record(product)
    \/ \E i \in ProductIds, q \in TargetQuantities : update_inventory(i, q)
    \/ \E item \in SyncItems : sync_single_product(item)

SpecSync == InitCatalog /\ [][NextSync]_vars

\* ------------------------------------------ repository calls run concurrently

\* Neither repository takes a lock, so a caller may be overtaken between the
\* statements of update_stock or update_order_status. A caller here makes one
\* call: its read (the lookup and the value the check is made on), then the
\* check, then the write.
ConcurrentDeltas == {-1, 1}

update_stock_read(t, product_id, quantity_change) ==
    /\ calls[t].pc = "idle"
    /\ calls' = [calls EXCEPT ![t] =
          IF ~check_product_exists(products_db, product_id)
          THEN [pc |-> "done", op |-> "update_stock", product_id |-> product_id,
                quantity_change |-> quantity_change, none |-> TRUE]
          ELSE [pc |-> "check", op |-> "update_stock", product_id |-> product_id,
                quantity_change |-> quantity_change,
                new_stock |-> products_db[product_id].stock + quantity_change]]
    /\ UNCHANGED <<users_db, products_db, orders_db, user_order_index, issued, ret,
                   before, queue, sku_index, payments_db, notifications_db>>

update_stock_check(t) ==
    /\ calls[t].pc = "check"
    /\ calls[t].op = "update_stock"
    /\ calls' = [calls EXCEPT ![t] =
          IF calls[t].new_stock < 0
          THEN [pc |-> "done", op |-> "update_stock",
                product_id |-> calls[t].product_id,
                quantity_change |-> calls[t].quantity_change, none |-> TRUE]
          ELSE [calls[t] EXCEPT !.pc = "write"]]
    /\ UNCHANGED <<users_db, products_db, orders_db, user_order_index, issued, ret,
                   before, queue, sku_index, payments_db, notifications_db>>

update_stock_write(t) ==
    /\ calls[t].pc = "write"
    /\ calls[t].op = "update_stock"
    /\ products_db' = [products_db EXCEPT ![calls[t].product_id].stock =
                                              calls[t].new_stock]
    /\ calls' = [calls EXCEPT ![t] =
          [pc |-> "done", op |-> "update_stock", product_id |-> calls[t].product_id,
           quantity_change |-> calls[t].quantity_change, none |-> FALSE]]
    /\ UNCHANGED <<users_db, orders_db, user_order_index, issued, ret, before, queue,
                   sku_index, payments_db, notifications_db>>

update_order_status_read(t, order_id, status) ==
    /\ calls[t].pc = "idle"
    /\ calls' = [calls EXCEPT ![t] =
          IF order_id \notin DOMAIN orders_db
          THEN [pc |-> "done", op |-> "update_order_status", order_id |-> order_id,
                status |-> status, none |-> TRUE]
          ELSE [pc |-> "check", op |-> "update_order_status", order_id |-> order_id,
                status |-> status, current |-> orders_db[order_id].status]]
    /\ UNCHANGED <<users_db, products_db, orders_db, user_order_index, issued, ret,
                   before, queue, sku_index, payments_db, notifications_db>>

update_order_status_check(t) ==
    /\ calls[t].pc = "check"
    /\ calls[t].op = "update_order_status"
    /\ calls' = [calls EXCEPT ![t] =
          IF ~is_valid_status_transition(calls[t].current, calls[t].status)
          THEN [pc |-> "done", op |-> "update_order_status",
                order_id |-> calls[t].order_id, status |-> calls[t].status,
                none |-> TRUE]
          ELSE [calls[t] EXCEPT !.pc = "write"]]
    /\ UNCHANGED <<users_db, products_db, orders_db, user_order_index, issued, ret,
                   before, queue, sku_index, payments_db, notifications_db>>

update_order_status_write(t) ==
    /\ calls[t].pc = "write"
    /\ calls[t].op = "update_order_status"
    /\ orders_db' = [orders_db EXCEPT ![calls[t].order_id].status = calls[t].status]
    /\ calls' = [calls EXCEPT ![t] =
          [pc |-> "done", op |-> "update_order_status",
           order_id |-> calls[t].order_id, status |-> calls[t].status,
           none |-> FALSE]]
    /\ UNCHANGED <<users_db, products_db, user_order_index, issued, ret, before, queue,
                   sku_index, payments_db, notifications_db>>

\* The tables when the callers start: stocked products and one order of u1
\* that has come to any status of its life.
InitConcurrent ==
    /\ users_db = [u \in {"u1", "u2"} |-> [active |-> (u = "u1")]]
    /\ products_db \in [Products -> [stock : 0..MaxStock]]
    /\ \E s \in Statuses :
          LET order == create_order_model("o1", "u1",
                           <<[product_id |-> "p1", quantity |-> 1, price |-> 150]>>,
                           "USD")
          IN  /\ orders_db = create_order_record(<<>>, [order EXCEPT !.status = s])
              /\ user_order_index = index_order_by_user(<<>>, order)
    /\ issued = 1
    /\ queue = <<>>
    /\ sku_index = <<>>
    /\ calls = NoCalls
    /\ payments_db = <<>>
    /\ notifications_db = <<>>
    /\ ret = NoCall
    /\ before = Tables

NextConcurrent ==
    \/ \E t \in Threads, i \in Products, d \in ConcurrentDeltas :
          update_stock_read(t, i, d)
    \/ \E t \in Threads : update_stock_check(t)
    \/ \E t \in Threads : update_stock_write(t)
    \/ \E t \in Threads, o \in OrderIds, s \in Statuses :
          update_order_status_read(t, o, s)
    \/ \E t \in Threads : update_order_status_check(t)
    \/ \E t \in Threads : update_order_status_write(t)

SpecConcurrent == InitConcurrent /\ [][NextConcurrent]_vars

\* ---------------------------------------------------- utils, payment_service

\* Most payments stored in a run.
MaxPayments == 2
\* Largest max_retries passed to retry_operation directly.
MaxRetries == 3

\* Ids generate_id("pay") hands out, in the order it hands them out.
PaymentIdSeq == <<"pay1", "pay2", "pay3", "pay4", "pay5">>
\* Arguments of process_payment: amounts 0, 0.01, 0.025 and 1.00.
PaymentAmounts == {0, AmountMin, 25, 1000}
PaymentMethods == {"credit_card", "paypal", "cash"}

\* An attempt that succeeds from the second try on.
simulate_attempt_second_try(func_name, attempt) ==
    [success |-> attempt >= 1, func |-> func_name, attempt |-> attempt]

simulate_attempt(func_name, attempt) ==
    [success |-> attempt >= 0, func |-> func_name, attempt |-> attempt]

\* The loop of retry_operation from this attempt on.
RECURSIVE retry_from(_, _, _)
retry_from(func_name, attempt, max_retries) ==
    IF attempt >= max_retries THEN [success |-> FALSE, attempts |-> max_retries]
    ELSE LET result == simulate_attempt(func_name, attempt)
         IN  IF result.success THEN result
             ELSE retry_from(func_name, attempt + 1, max_retries)

retry_operation(func_name, max_retries) == retry_from(func_name, 0, max_retries)

get_supported_methods == {"credit_card", "debit_card", "paypal", "bank_transfer"}

validate_payment_method(method) == method \in get_supported_methods

create_payment_model(id, order_id, amount, method) ==
    [id |-> id, order_id |-> order_id, amount |-> amount, method |-> method,
     status |-> "pending"]

PaymentRetries == 3

\* f"payment_{payment['id']}" is the payment's id under a prefix.
execute_payment(payment) == retry_operation(payment.id, PaymentRetries)

\* process_payment(order_id, amount, method, currency): the code of its
\* response, the id of the payment it stored and the payment table afterwards.
process_payment_result(pdb, order_id, amount, method, currency) ==
    LET code == IF ~validate_amount(amount) THEN "BAD_AMOUNT"
                ELSE IF ~validate_currency(currency) THEN "BAD_CURRENCY"
                ELSE IF ~validate_payment_method(method) THEN "BAD_METHOD"
                ELSE "success"
        id == PaymentIdSeq[Cardinality(DOMAIN pdb) + 1]
        payment == create_payment_model(id, order_id, amount, method)
        result == execute_payment(payment)
        stored == [payment EXCEPT !.status = IF result.success THEN "completed"
                                             ELSE "failed"]
    IN  IF code = "success"
        THEN [code |-> code, payment_id |-> id,
              db |-> [i \in DOMAIN pdb \cup {id} |-> IF i = id THEN stored ELSE pdb[i]]]
        ELSE [code |-> code, payment_id |-> "", db |-> pdb]

process_payment(order_id, amount, method, currency) ==
    LET r == process_payment_result(payments_db, order_id, amount, method, currency)
    IN  /\ IF r.code = "success"
           THEN /\ Cardinality(DOMAIN payments_db) < MaxPayments
                /\ payments_db' = r.db
           ELSE UNCHANGED payments_db
        /\ ret' = [op |-> "process_payment", code |-> r.code, order_id |-> order_id,
                   amount |-> amount, method |-> method, currency |-> currency,
                   payment_id |-> r.payment_id]
        /\ before' = Tables
        /\ UNCHANGED <<users_db, products_db, orders_db, user_order_index, issued,
                       queue, sku_index, calls, notifications_db>>

call_retry_operation(func_name, max_retries) ==
    /\ ret' = [op |-> "retry_operation", max_retries |-> max_retries,
               result |-> retry_operation(func_name, max_retries)]
    /\ before' = Tables
    /\ UNCHANGED <<side_tables, users_db, products_db, orders_db, user_order_index,
                   issued>>

\* payment_id of a refund_payment or retry_failed_payment call: the ids of the
\* payments a run stores and one no payment has.
PaymentIds == {"pay0", "pay1", "pay2"}
RefundReasons == {"", "damaged"}

create_refund(payment, reason) ==
    [payment_id |-> payment.id, amount |-> payment.amount, reason |-> reason,
     status |-> "processed"]

\* The error code of refund_payment with the check of the status left out.
refund_payment_code_any_status(pdb, payment_id) ==
    IF payment_id \notin DOMAIN pdb THEN "NOT_FOUND" ELSE "success"

\* The error code of refund_payment(payment_id, reason), "success" when it
\* returns format_response(refund).
refund_payment_code(pdb, payment_id) ==
    IF payment_id \notin DOMAIN pdb THEN "NOT_FOUND"
    ELSE IF pdb[payment_id].status # "completed" THEN "INVALID_STATE"
    ELSE "success"

refund_payment(payment_id, reason) ==
    LET code == refund_payment_code(payments_db, payment_id)
    IN  /\ IF code = "success"
           THEN /\ payments_db' = [payments_db EXCEPT ![payment_id].status = "refunded"]
                /\ ret' = [op |-> "refund_payment", code |-> code,
                           payment_id |-> payment_id, reason |-> reason,
                           refund |-> create_refund(payments_db[payment_id], reason)]
           ELSE /\ UNCHANGED payments_db
                /\ ret' = [op |-> "refund_payment", code |-> code,
                           payment_id |-> payment_id, reason |-> reason]
        /\ before' = Tables
        /\ UNCHANGED <<users_db, products_db, orders_db, user_order_index, issued,
                       queue, sku_index, calls, notifications_db>>

retry_failed_payment(payment_id) ==
    LET code == IF payment_id \notin DOMAIN payments_db THEN "NOT_FOUND"
                ELSE IF payments_db[payment_id].status # "failed" THEN "INVALID_STATE"
                ELSE "success"
    IN  /\ IF code = "success" /\ execute_payment(payments_db[payment_id]).success
           THEN payments_db' = [payments_db EXCEPT ![payment_id].status = "completed"]
           ELSE UNCHANGED payments_db
        /\ ret' = [op |-> "retry_failed_payment", code |-> code,
                   payment_id |-> payment_id]
        /\ before' = Tables
        /\ UNCHANGED <<users_db, products_db, orders_db, user_order_index, issued,
                       queue, sku_index, calls, notifications_db>>

NextPayment ==
    \/ \E o \in OrderIds, amount \in PaymentAmounts, method \in PaymentMethods,
          c \in Currencies :
          process_payment(o, amount, method, c)
    \/ \E n \in 0..MaxRetries : call_retry_operation("op", n)
    \/ \E id \in PaymentIds, reason \in RefundReasons : refund_payment(id, reason)
    \/ \E id \in PaymentIds : retry_failed_payment(id)

SpecPayment == Init /\ [][NextPayment]_vars

\* ------------------------------------------------------ main: handle_checkout

\* Most notifications stored in a run.
MaxNotifications == 2

\* Ids generate_id("ntf") hands out, in the order it hands them out.
NotificationIdSeq == <<"ntf1", "ntf2", "ntf3", "ntf4", "ntf5">>

\* The Authorization header of a request: absent, or a scheme and a token of
\* some length.
CheckoutHeaders ==
    {[scheme |-> "", token_len |-> 0], [scheme |-> "Basic ", token_len |-> 10],
     [scheme |-> "Bearer ", token_len |-> 9], [scheme |-> "Bearer ", token_len |-> 10]}
\* Addresses as sequences of characters: none, a@b.c, a@b and a@@b.c.
CheckoutEmails ==
    {<<>>, <<"a", "@", "b", ".", "c">>, <<"a", "@", "b">>,
     <<"a", "@", "@", "b", ".", "c">>}
\* request.get("total", 0): 0, 0.025 and 1.00.
CheckoutTotals == {0, 25, 1000}

TokenMin == 10

\* authenticate_request(headers)["authenticated"]: a Bearer token that
\* decode_token accepts.
authenticate_request(headers) ==
    headers.scheme = "Bearer " /\ headers.token_len >= TokenMin

\* len(domain) >= 3 with a "." in it
validate_domain(domain) ==
    /\ \E i \in 1..Len(domain) : domain[i] = "."
    /\ Len(domain) >= 3

\* One "@" and a valid domain behind it.
validate_email(email) ==
    LET ats == {i \in 1..Len(email) : email[i] = "@"}
    IN  /\ Cardinality(ats) = 1
        /\ \A i \in ats : validate_domain(SubSeq(email, i + 1, Len(email)))

\* send_email(user_id, to_email, subject, body): the notification table
\* afterwards and whether a notification was stored.
send_email(ndb, user_id, to_email, subject, body) ==
    IF ~validate_email(to_email) THEN [db |-> ndb, code |-> "BAD_EMAIL"]
    ELSE LET id == NotificationIdSeq[Cardinality(DOMAIN ndb) + 1]
             notification == [id |-> id, user_id |-> user_id, channel |-> "email",
                              subject |-> subject, body |-> body, read |-> FALSE,
                              to |-> to_email]
         IN  [db |-> [i \in DOMAIN ndb \cup {id} |->
                         IF i = id THEN notification ELSE ndb[i]],
              code |-> "success"]

\* handle_checkout goes on to the payment whatever submit_order returned.
checkout_proceeds_always(submit_code) == TRUE

\* submit_result.get("status") == "success"
checkout_proceeds(submit_code) == submit_code = "success"

\* handle_checkout(request). The shipping cost, the discount and the invoice
\* it computes are values of the response and touch no table.
handle_checkout(request) ==
    LET order_id == request.order_id
        submit_code == submit_order_code(orders_db, order_id)
        submitted == IF submit_code = "success"
                     THEN update_order_status(orders_db, order_id, "pending").db
                     ELSE orders_db
        pay == process_payment_result(payments_db, order_id, request.total,
                                      "credit_card", "USD")
        mail == send_email(notifications_db, request.user_id, request.email,
                           "Order Confirmation", order_id)
    IN  /\ IF ~authenticate_request(request.headers)
           THEN /\ UNCHANGED <<orders_db, payments_db, notifications_db>>
                /\ ret' = [op |-> "handle_checkout", code |-> "UNAUTHORIZED",
                           order_id |-> order_id]
           ELSE IF ~checkout_proceeds(submit_code)
           THEN /\ orders_db' = submitted
                /\ UNCHANGED <<payments_db, notifications_db>>
                /\ ret' = [op |-> "handle_checkout", code |-> submit_code,
                           order_id |-> order_id]
           ELSE /\ Cardinality(DOMAIN payments_db) < MaxPayments
                /\ Cardinality(DOMAIN notifications_db) < MaxNotifications
                /\ orders_db' = submitted
                /\ payments_db' = pay.db
                /\ notifications_db' = mail.db
                /\ ret' = [op |-> "handle_checkout", code |-> "success",
                           order_id |-> order_id, submit |-> submit_code,
                           payment |-> pay.code, email |-> mail.code]
        /\ before' = Tables
        /\ UNCHANGED <<users_db, products_db, user_order_index, issued, queue,
                       sku_index, calls>>

CallHandleCheckout ==
    \E h \in CheckoutHeaders, o \in OrderIds \cup {"o0"}, t \in CheckoutTotals,
       e \in CheckoutEmails :
       handle_checkout([headers |-> h, order_id |-> o, total |-> t,
                        user_id |-> "u1", email |-> e])

NextCheckout ==
    \/ /\ issued < Len(OrderIdSeq)
       /\ \E u \in UserIds, items \in SeqsUpTo(ItemInputs, 1), c \in Currencies :
             create_order(u, items, c)
    \/ /\ issued < Len(OrderIdSeq)
       /\ \E u \in UserIds, c \in Currencies : call_create_order_record(u, c)
    \/ CallCancelOrder
    \/ CallHandleCheckout

SpecCheckout == Init /\ [][NextCheckout]_vars

\* ------------------------------------- order_repository: the user-order index

\* Most entries of the user-order index followed for one user.
MaxIndexed == 3

\* Ids of the orders handed to create_order_record and their users.
RecordIds == {"o1", "o2"}
RecordUsers == {"u1", "u2"}

\* limit of list_orders_by_user by default, and as count_orders passes it.
ListOrdersLimit == 50
CountOrdersLimit == 999999

\* sorted(orders, key=created_at or "", reverse=True): no order model has a
\* created_at, so every key is "" and the stable sort keeps the list.
sort_by_date(orders) == orders

delete_order_record(db, order_id) ==
    IF order_id \in DOMAIN db
    THEN [db |-> [o \in DOMAIN db \ {order_id} |-> db[o]], value |-> TRUE]
    ELSE [db |-> db, value |-> FALSE]

\* The orders found for the ids of the index, in the order of the index.
RECURSIVE found_orders(_, _)
found_orders(db, order_ids) ==
    IF order_ids = <<>> THEN <<>>
    ELSE IF Head(order_ids) \in DOMAIN db
    THEN <<db[Head(order_ids)]>> \o found_orders(db, Tail(order_ids))
    ELSE found_orders(db, Tail(order_ids))

list_orders_by_user(db, index, user_id, limit) ==
    LET order_ids == IF user_id \in DOMAIN index THEN index[user_id] ELSE <<>>
        orders == sort_by_date(found_orders(db, order_ids))
    IN  SubSeq(orders, 1, IF limit < Len(orders) THEN limit ELSE Len(orders))

count_orders(db, index, user_id) ==
    IF user_id # ""
    THEN Len(list_orders_by_user(db, index, user_id, CountOrdersLimit))
    ELSE Cardinality(DOMAIN db)

\* Entries of the index under the user.
IndexSize(user_id) ==
    IF user_id \in DOMAIN user_order_index THEN Len(user_order_index[user_id]) ELSE 0

\* create_order_record(order) for an order whose id no stored order has: a new
\* order, or one put back after it was deleted.
call_create_order_record_as(order_id, user_id) ==
    /\ order_id \notin DOMAIN orders_db
    /\ IndexSize(user_id) < MaxIndexed
    /\ LET order == create_order_model(order_id, user_id, <<>>, "USD")
       IN  /\ orders_db' = create_order_record(orders_db, order)
           /\ user_order_index' = index_order_by_user(user_order_index, order)
           /\ ret' = [op |-> "create_order_record", order_id |-> order_id,
                      user_id |-> user_id]
    /\ before' = Tables
    /\ UNCHANGED <<side_tables, users_db, products_db, issued>>

call_delete_order_record(order_id) ==
    LET r == delete_order_record(orders_db, order_id)
    IN  /\ orders_db' = r.db
        /\ ret' = [op |-> "delete_order_record", order_id |-> order_id,
                   value |-> r.value]
        /\ before' = Tables
        /\ UNCHANGED <<side_tables, users_db, products_db, user_order_index, issued>>

call_list_orders_by_user(user_id) ==
    /\ ret' = [op |-> "list_orders_by_user", user_id |-> user_id,
               orders |-> list_orders_by_user(orders_db, user_order_index, user_id,
                                              ListOrdersLimit)]
    /\ before' = Tables
    /\ UNCHANGED <<side_tables, users_db, products_db, orders_db, user_order_index,
                   issued>>

call_count_orders(user_id) ==
    /\ ret' = [op |-> "count_orders", user_id |-> user_id,
               count |-> count_orders(orders_db, user_order_index, user_id)]
    /\ before' = Tables
    /\ UNCHANGED <<side_tables, users_db, products_db, orders_db, user_order_index,
                   issued>>

InitOrderIndex ==
    /\ users_db = [u \in RecordUsers |-> [active |-> TRUE]]
    /\ products_db = <<>>
    /\ orders_db = <<>>
    /\ user_order_index = <<>>
    /\ issued = 0
    /\ queue = <<>>
    /\ sku_index = <<>>
    /\ calls = NoCalls
    /\ payments_db = <<>>
    /\ notifications_db = <<>>
    /\ ret = NoCall
    /\ before = Tables

NextOrderIndex ==
    \/ \E o \in RecordIds, u \in RecordUsers : call_create_order_record_as(o, u)
    \/ \E o \in RecordIds \cup {"o0"} : call_delete_order_record(o)
    \/ \E u \in RecordUsers \cup {"u0"} : call_list_orders_by_user(u)
    \/ \E u \in RecordUsers \cup {"u0"} : call_count_orders(u)

SpecOrderIndex == InitOrderIndex /\ [][NextOrderIndex]_vars

\* ------------------------------------------------ pure functions on inputs

\* Items at the edges of validate_order_items' checks: quantity 0, 1, 10000 and
\* 10001; price -0.01, 0, 0.01, 0.025, 0.15, 999999.99 and 1000000.00; a
\* product in the table or not.
ValidateItemInputs ==
    [product_id : ProductIds,
     quantity : {-1, 0, 1, QuantityMax, QuantityMax + 1},
     price : {-10, 0, AmountMin, 25, 150, AmountMax, AmountMax + 10}]

call_validate_order_items(items) ==
    /\ ret' = [op |-> "validate_order_items", items |-> items,
               reason |-> validate_order_items(products_db, items)]
    /\ before' = Tables
    /\ UNCHANGED <<side_tables, users_db, products_db, orders_db, user_order_index,
                   issued>>

\* Largest stock classified.
MaxClassified == 52
ClassifyStocks == -2..MaxClassified

LowStockMax == 10
MediumStockMax == 50

\* The classification with a stock of 10 counted as medium.
classify_stock_level_low_below(stock) ==
    IF stock <= 0 THEN "out_of_stock"
    ELSE IF stock < LowStockMax THEN "low"
    ELSE IF stock <= MediumStockMax THEN "medium"
    ELSE "high"

classify_stock_level(stock) ==
    IF stock <= 0 THEN "out_of_stock"
    ELSE IF stock <= LowStockMax THEN "low"
    ELSE IF stock <= MediumStockMax THEN "medium"
    ELSE "high"

call_classify_stock_level(stock) ==
    /\ ret' = [op |-> "classify_stock_level", stock |-> stock,
               level |-> classify_stock_level(stock)]
    /\ before' = Tables
    /\ UNCHANGED <<side_tables, users_db, products_db, orders_db, user_order_index,
                   issued>>

NextPure ==
    \/ \E item \in ValidateItemInputs : call_validate_order_items(<<item>>)
    \/ \E stock \in ClassifyStocks : call_classify_stock_level(stock)

SpecPure == Init /\ [][NextPure]_vars

\* ------------------------------------------------------------------ claims

\* Total quantity the items order of product p.
QuantityOf(items, p) ==
    SumSeq([i \in 1..Len(items) |->
               IF items[i].product_id = p THEN items[i].quantity ELSE 0])

StockOf(pdb) == [p \in DOMAIN pdb |-> pdb[p].stock]

\* C1: no product's stock is ever negative; an update_stock call whose result
\* current + delta would be negative returns None and leaves the product table
\* as it was; a call whose result is >= 0 stores current + delta and returns it.
C1_StockNeverNegative ==
    /\ \A p \in DOMAIN products_db : products_db[p].stock >= 0
    /\ (ret.op = "update_stock" /\ ret.product_id \in DOMAIN before.products) =>
          LET current == before.products[ret.product_id].stock
              result == current + ret.quantity_change
          IN  IF result < 0
              THEN ret.none /\ products_db = before.products
              ELSE /\ ~ret.none
                   /\ ret.value = result
                   /\ products_db =
                        [before.products EXCEPT ![ret.product_id].stock = result]

\* C1 witness: a decrement by 2 of a product holding 1 was rejected.
C1_Witness ==
    /\ ret.op = "update_stock"
    /\ ret.none
    /\ ret.quantity_change = -2
    /\ ret.product_id \in DOMAIN products_db
    /\ products_db[ret.product_id].stock = 1

\* The transition table as the design states it.
C2_Table(from) ==
    CASE from = "created"    -> {"pending", "cancelled"}
      [] from = "pending"    -> {"processing", "cancelled"}
      [] from = "processing" -> {"shipped", "cancelled"}
      [] from = "shipped"    -> {"delivered"}
      [] from = "delivered"  -> {"returned"}
      [] from = "cancelled"  -> {}
      [] from = "returned"   -> {}

\* C2: whatever the call, an order's status changes only along the transition
\* table; update_order_status with a target the table lists for the current
\* status stores it, and with any other target (every target out of cancelled or
\* returned, the current status itself) returns None and leaves the order table
\* unchanged.
C2_StatusFollowsTable ==
    /\ \A o \in DOMAIN before.orders :
          /\ o \in DOMAIN orders_db
          /\ orders_db[o].status # before.orders[o].status =>
                orders_db[o].status \in C2_Table(before.orders[o].status)
    /\ (ret.op = "update_order_status" /\ ret.order_id \in DOMAIN before.orders) =>
          IF ret.status \in C2_Table(before.orders[ret.order_id].status)
          THEN /\ ~ret.none
               /\ orders_db = [before.orders EXCEPT ![ret.order_id].status = ret.status]
          ELSE ret.none /\ orders_db = before.orders

\* C2 witness: a cancelled order was asked to go back to pending and was left
\* cancelled.
C2_Witness ==
    /\ ret.op = "update_order_status"
    /\ ret.none
    /\ ret.status = "pending"
    /\ ret.order_id \in DOMAIN orders_db
    /\ orders_db[ret.order_id].status = "cancelled"

\* The order a successful create_order call has just stored.
CreatedOrder == orders_db[ret.order_id]

CreateSucceeded == ret.op = "create_order" /\ ret.code = "success"

\* C3: an order that create_order accepted and that its owner cancels in the very
\* next call leaves every product's stock where it was before create_order.
C3_ReservationReleaseConserved ==
    [][(/\ CreateSucceeded
        /\ ret'.op = "cancel_order"
        /\ ret'.code = "success"
        /\ ret'.order_id = ret.order_id)
       => StockOf(products_db') = StockOf(before.products)]_vars

\* C4: create_order does not answer with success when some item's quantity
\* exceeds the stock its product had when the call began.
C4_InsufficientStockFails ==
    CreateSucceeded =>
        \A i \in 1..Len(CreatedOrder.items) :
            CreatedOrder.items[i].quantity
                <= before.products[CreatedOrder.items[i].product_id].stock

\* Stock per product once the first k items of the list have had their turn: an
\* item takes its quantity when the stock left at its turn covers it, and
\* nothing otherwise.
RECURSIVE C5_StockAfter(_, _, _)
C5_StockAfter(items, stock, k) ==
    IF k = 0 THEN stock
    ELSE LET prev == C5_StockAfter(items, stock, k - 1)
             p == items[k].product_id
         IN  IF items[k].quantity <= prev[p]
             THEN [prev EXCEPT ![p] = @ - items[k].quantity]
             ELSE prev

\* Item k of the list found enough stock at its turn.
C5_Reserved(items, stock, k) ==
    items[k].quantity <= C5_StockAfter(items, stock, k - 1)[items[k].product_id]

C5_SomeItemFailed ==
    /\ CreateSucceeded
    /\ \E k \in 1..Len(CreatedOrder.items) :
          ~C5_Reserved(CreatedOrder.items, StockOf(before.products), k)

\* C5 as stated: when an item's adjustment fails the order stays stored at status
\* created, every item that was reserved leaves its product below the stock it
\* had, and the product of every failing item has the stock it had before the call.
C5_FailingItemProductUnchanged ==
    C5_SomeItemFailed =>
        LET items == CreatedOrder.items
            stock == StockOf(before.products)
        IN  /\ CreatedOrder.status = "created"
            /\ \A k \in 1..Len(items) :
                  IF C5_Reserved(items, stock, k)
                  THEN products_db[items[k].product_id].stock
                          <= stock[items[k].product_id] - items[k].quantity
                  ELSE products_db[items[k].product_id].stock
                          = stock[items[k].product_id]

\* C5 amended: when an item's adjustment fails the order stays stored at status
\* created, the failing adjustment itself changes nothing, and every product ends
\* at the stock it had before the call less the quantities of its items that
\* were reserved (before or after the failing one).
C5_PartialReservationKept ==
    C5_SomeItemFailed =>
        LET items == CreatedOrder.items
            stock == StockOf(before.products)
            reserved(p) ==
                SumSeq([k \in 1..Len(items) |->
                           IF items[k].product_id = p /\ C5_Reserved(items, stock, k)
                           THEN items[k].quantity ELSE 0])
        IN  /\ ret.order_id \in DOMAIN orders_db
            /\ ret.order_id \notin DOMAIN before.orders
            /\ CreatedOrder.status = "created"
            /\ \A p \in DOMAIN stock : products_db[p].stock = stock[p] - reserved(p)

\* C5 witness: one item of the stored order was refused and another was reserved.
C5_Witness ==
    /\ C5_SomeItemFailed
    /\ products_db # before.products

\* C6: a create_order call that answers with an error leaves the order table,
\* the user-order index and every product's stock as they were; and the call
\* answers with an error whenever the user is unknown or inactive, the currency
\* is not a supported one, the item list is empty, or an item has a quantity
\* outside (0, 10000], a price below zero or with more than two decimal places,
\* or a product that is not in the product table.
C6_NoMutationOnValidationFailure ==
    ret.op = "create_order" =>
        IF ret.code # "success"
        THEN /\ orders_db = before.orders
             /\ user_order_index = before.index
             /\ products_db = before.products
        ELSE /\ CreatedOrder.user_id \in DOMAIN users_db
             /\ users_db[CreatedOrder.user_id].active
             /\ CreatedOrder.currency \in {"USD", "EUR", "GBP", "JPY", "PLN", "CAD"}
             /\ CreatedOrder.items # <<>>
             /\ \A i \in 1..Len(CreatedOrder.items) :
                   LET item == CreatedOrder.items[i]
                   IN  /\ item.quantity > 0
                       /\ item.quantity <= 10000
                       /\ item.price >= 0
                       /\ item.price % 10 = 0
                       /\ item.product_id \in DOMAIN before.products

\* C6 witness: a call with invalid items was rejected while an order was stored.
C6_Witness ==
    /\ ret.op = "create_order"
    /\ ret.code = "INVALID_ITEMS"
    /\ orders_db # <<>>

\* C7: after a successful create_order in which every item's quantity is at most
\* the stock its product had, the stored order has status created, each
\* subtotal is quantity * price, the total is the sum of the subtotals, and each
\* product's stock is lower by exactly the total quantity ordered of it.
C7_SuccessfulCreateReservesAll ==
    (/\ CreateSucceeded
     /\ \A i \in 1..Len(CreatedOrder.items) :
           CreatedOrder.items[i].quantity
               <= before.products[CreatedOrder.items[i].product_id].stock)
    => LET items == CreatedOrder.items
       IN  /\ CreatedOrder.status = "created"
           /\ \A i \in 1..Len(items) :
                 items[i].subtotal = items[i].quantity * items[i].price
           /\ CreatedOrder.total = SumSeq([i \in 1..Len(items) |-> items[i].subtotal])
           /\ \A p \in DOMAIN products_db :
                 products_db[p].stock
                     = before.products[p].stock - QuantityOf(items, p)

\* C8: cancel_order on an order that is shipped, delivered, returned or cancelled
\* does not succeed (it answers INVALID_STATE to the owner), and leaves the order
\* table and every product's stock as they were.
C8_CancelRejectedInFinalStates ==
    (/\ ret.op = "cancel_order"
     /\ ret.order_id \in DOMAIN before.orders
     /\ before.orders[ret.order_id].status
           \in {"shipped", "delivered", "returned", "cancelled"})
    => /\ ret.code # "success"
       /\ before.orders[ret.order_id].user_id = ret.user_id => ret.code = "INVALID_STATE"
       /\ orders_db = before.orders
       /\ products_db = before.products

\* C8 witness: the owner's cancellation of a shipped order was refused.
C8_Witness ==
    /\ ret.op = "cancel_order"
    /\ ret.code = "INVALID_STATE"
    /\ orders_db[ret.order_id].status = "shipped"
    /\ orders_db[ret.order_id].user_id = ret.user_id

\* C9: cancel_order answers NOT_FOUND for an order id that is not in the order
\* table and FORBIDDEN for a caller who is not the order's user, whatever the
\* order's status; in both cases the order table and every product's stock are
\* left as they were.
C9_CancelNotFoundOrForbidden ==
    ret.op = "cancel_order" =>
        /\ ret.order_id \notin DOMAIN before.orders =>
              /\ ret.code = "NOT_FOUND"
              /\ orders_db = before.orders
              /\ products_db = before.products
        /\ (/\ ret.order_id \in DOMAIN before.orders
            /\ before.orders[ret.order_id].user_id # ret.user_id) =>
              /\ ret.code = "FORBIDDEN"
              /\ orders_db = before.orders
              /\ products_db = before.products

\* C9 witness: another user's cancellation of an order still at status created,
\* with reserved stock, was refused.
C9_Witness ==
    /\ ret.op = "cancel_order"
    /\ ret.code = "FORBIDDEN"
    /\ orders_db[ret.order_id].status = "created"
    /\ \E p \in DOMAIN products_db : QuantityOf(orders_db[ret.order_id].items, p) > 0

\* C10: process_refund on a delivered order moves it to returned, adds each
\* item's quantity to its product's stock and returns the sum of quantity * price
\* over the items; on an order in any other status it answers INVALID_STATE and
\* leaves the order table and every product's stock as they were.
C10_RefundOnlyWhenDelivered ==
    (ret.op = "process_refund" /\ ret.order_id \in DOMAIN before.orders) =>
        LET old == before.orders[ret.order_id]
        IN  IF old.status = "delivered"
            THEN /\ ret.code = "success"
                 /\ orders_db = [before.orders EXCEPT ![ret.order_id].status = "returned"]
                 /\ \A p \in DOMAIN products_db :
                       products_db[p].stock
                           = before.products[p].stock + QuantityOf(old.items, p)
                 /\ ret.refunded =
                       SumSeq([i \in 1..Len(old.items) |->
                                  old.items[i].quantity * old.items[i].price])
            ELSE /\ ret.code = "INVALID_STATE"
                 /\ orders_db = before.orders
                 /\ products_db = before.products

\* C10 witness: a delivered order with items on both products was refunded.
C10_Witness ==
    /\ ret.op = "process_refund"
    /\ ret.code = "success"
    /\ \A p \in DOMAIN products_db : QuantityOf(orders_db[ret.order_id].items, p) > 0

\* C11: submit_order succeeds exactly for an order that exists, has at least one
\* item and is at status created, and then the order is at status pending; for
\* a missing order, an order with no items or an order at any other status it
\* answers with an error and leaves the order table as it was; it never changes
\* a product.
C11_SubmitOnlyFromCreated ==
    ret.op = "submit_order" =>
        /\ products_db = before.products
        /\ IF /\ ret.order_id \in DOMAIN before.orders
              /\ before.orders[ret.order_id].items # <<>>
              /\ before.orders[ret.order_id].status = "created"
           THEN /\ ret.code = "success"
                /\ orders_db = [before.orders EXCEPT ![ret.order_id].status = "pending"]
           ELSE /\ ret.code \in {"INVALID", "STATE_ERROR"}
                /\ orders_db = before.orders

\* C11 witness: an order with items was submitted and is pending.
C11_Witness ==
    /\ ret.op = "submit_order"
    /\ ret.code = "success"
    /\ orders_db[ret.order_id].status = "pending"
    /\ orders_db[ret.order_id].items # <<>>

\* C12: validate_order_items accepts a list of one item exactly when the
\* quantity is an integer in (0, 10000], the price is at least 0 with at most
\* two decimal places, and the product is in the product table; so a price of 0
\* and a quantity of 10000 are accepted, and a quantity of 0 or 10001 is not.
C12_ItemAcceptedIff ==
    ret.op = "validate_order_items" =>
        LET item == ret.items[1]
        IN  ret.reason = "" <=>
               /\ item.quantity > 0
               /\ item.quantity <= 10000
               /\ item.price >= 0
               /\ item.price % 10 = 0
               /\ item.product_id \in DOMAIN products_db

\* The part of C13 about inventory_service.reserve_stock: a successful call that
\* leaves the product at 10 or less appends one priority-1 alert carrying that
\* stock to the queue, and one that leaves it above 10 leaves the queue alone.
C13_ReserveStockAlerts ==
    (ret.op = "reserve_stock" /\ ret.code = "success") =>
        IF products_db[ret.product_id].stock <= 10
        THEN /\ Len(queue) = Len(before.queue) + 1
             /\ \E i \in 1..Len(queue) :
                   /\ queue[i].priority = 1
                   /\ queue[i].status = "queued"
                   /\ queue[i].notification.body.stock
                         = products_db[ret.product_id].stock
        ELSE queue = before.queue

\* C13: after a successful stock reservation that leaves the product at 10 or
\* less, made by create_order or by inventory_service.reserve_stock, a low-stock
\* notification has been added to the queue; none is added when the stock
\* stays above 10.
C13_ReorderAlertAfterReservation ==
    /\ C13_ReserveStockAlerts
    /\ CreateSucceeded =>
          IF \E p \in DOMAIN products_db :
                /\ products_db[p].stock < before.products[p].stock
                /\ products_db[p].stock <= 10
          THEN Len(queue) > Len(before.queue)
          ELSE queue = before.queue

\* C14: no product's stock is negative, and a call other than update_stock (and
\* than create_product_record, which may replace a product) leaves the stock of
\* every product it does not delete as it was; in particular
\* update_product_record, whatever its updates mapping.
C14_StockWrittenOnlyByUpdateStock ==
    /\ \A i \in DOMAIN products_db : products_db[i].stock >= 0
    /\ ret.op \notin {"update_stock", "create_product_record"} =>
          \A i \in DOMAIN products_db \cap DOMAIN before.products :
              products_db[i].stock = before.products[i].stock

\* The product of the table that has this id and this sku, if any.
C15_ProductWithSku(i, sku) ==
    /\ i \in DOMAIN products_db
    /\ "sku" \in DOMAIN products_db[i]
    /\ products_db[i].sku = sku

\* C15: every entry sku -> id of the SKU index names a product of the table
\* whose sku is that sku; every product of the table that has a sku is what
\* find_product_by_sku returns for it; and a successful delete_product_record
\* takes the deleted product's sku out of the index and leaves every entry of
\* another product in it.
C15_SkuIndexConsistent ==
    /\ \A sku \in DOMAIN sku_index : C15_ProductWithSku(sku_index[sku], sku)
    /\ \A i \in DOMAIN products_db :
          "sku" \in DOMAIN products_db[i] =>
              LET found == find_product_by_sku(products_db, sku_index,
                                               products_db[i].sku)
              IN  ~found.none /\ found.value = products_db[i]
    /\ (ret.op = "delete_product_record" /\ ret.value) =>
          \A sku \in DOMAIN before.skus :
              IF before.skus[sku] = ret.product_id
              THEN sku \notin DOMAIN sku_index
              ELSE sku \in DOMAIN sku_index /\ sku_index[sku] = before.skus[sku]

\* A product counts as active unless it is marked inactive.
C18_Active(product) == ~("active" \in DOMAIN product /\ product.active = FALSE)

C16_BothDone(op) == \A t \in Threads : calls[t].pc = "done" /\ calls[t].op = op

\* C16: with the steps of concurrent callers interleaved, no stock is negative;
\* once two update_stock calls on one product have returned, its stock is the
\* stock it had plus the quantity_change of each call that did not return None;
\* and two update_order_status calls on one order have both succeeded only if
\* the transition table lets the one follow the other.
C16_CallsAreCriticalSections ==
    /\ \A i \in DOMAIN products_db : products_db[i].stock >= 0
    /\ (/\ C16_BothDone("update_stock")
        /\ calls["t1"].product_id = calls["t2"].product_id) =>
          LET i == calls["t1"].product_id
              applied(t) == IF calls[t].none THEN 0 ELSE calls[t].quantity_change
          IN  products_db[i].stock
                 = before.products[i].stock + applied("t1") + applied("t2")
    /\ (/\ C16_BothDone("update_order_status")
        /\ calls["t1"].order_id = calls["t2"].order_id
        /\ ~calls["t1"].none
        /\ ~calls["t2"].none) =>
          LET from == before.orders[calls["t1"].order_id].status
              first == calls["t1"].status
              second == calls["t2"].status
          IN  \/ first \in C2_Table(from) /\ second \in C2_Table(first)
              \/ second \in C2_Table(from) /\ first \in C2_Table(second)

\* C17: classify_stock_level answers out_of_stock for a stock of 0 or less, low
\* for 1..10, medium for 11..50 and high for 51 or more, and changes no table.
C17_ClassifyByThresholds ==
    ret.op = "classify_stock_level" =>
        /\ ret.level = CASE ret.stock <= 0 -> "out_of_stock"
                         [] ret.stock \in 1..10 -> "low"
                         [] ret.stock \in 11..50 -> "medium"
                         [] ret.stock >= 51 -> "high"
        /\ Tables = before

\* C17 witness: a stock of 10 was classified as low.
C17_Witness ==
    /\ ret.op = "classify_stock_level"
    /\ ret.stock = 10
    /\ ret.level = "low"

\* C19: get_order_details changes no table (no order's status, items or total,
\* no product's stock), answers NOT_FOUND for an id that is not in the order
\* table, and for an order of the table recomputes from the items a total equal
\* to the total stored in the order, whatever status the order has reached.
C19_DetailsReadOnlyTotalMatches ==
    ret.op = "get_order_details" =>
        /\ Tables = before
        /\ IF ret.order_id \in DOMAIN orders_db
           THEN /\ ret.code = "success"
                /\ ret.total = orders_db[ret.order_id].total
                /\ ret.total = SumSeq([i \in 1..Len(orders_db[ret.order_id].items) |->
                                         orders_db[ret.order_id].items[i].quantity
                                           * orders_db[ret.order_id].items[i].price])
           ELSE ret.code = "NOT_FOUND"

\* C19 witness: the details of a returned order of two items were read.
C19_Witness ==
    /\ ret.op = "get_order_details"
    /\ ret.code = "success"
    /\ orders_db[ret.order_id].status = "returned"
    /\ Len(orders_db[ret.order_id].items) = 2
    /\ ret.total > 0

\* C20: retry_operation with max_retries of 1 or more returns a success whose
\* attempt is 0; a process_payment call with an amount in [0.01, 999999.99] of at
\* most two decimal places, a supported currency and a supported method stores a
\* new payment with status completed; and no stored payment has status failed.
C20_PaymentAlwaysCompleted ==
    /\ (ret.op = "retry_operation" /\ ret.max_retries >= 1) =>
          ret.result.success /\ ret.result.attempt = 0
    /\ (/\ ret.op = "process_payment"
        /\ ret.amount >= 10
        /\ ret.amount <= 999999990
        /\ ret.amount % 10 = 0
        /\ ret.currency \in {"USD", "EUR", "GBP", "JPY", "PLN", "CAD"}
        /\ ret.method \in {"credit_card", "debit_card", "paypal", "bank_transfer"}) =>
          /\ ret.code = "success"
          /\ ret.payment_id \notin DOMAIN before.payments
          /\ ret.payment_id \in DOMAIN payments_db
          /\ payments_db[ret.payment_id].status = "completed"
    /\ \A i \in DOMAIN payments_db : payments_db[i].status # "failed"

\* C20 witness: a second payment was stored as completed.
C20_Witness ==
    /\ ret.op = "process_payment"
    /\ ret.code = "success"
    /\ before.payments # <<>>
    /\ payments_db[ret.payment_id].status = "completed"

\* C21: a cancel_order, process_refund or submit_order call that adds to the
\* stock of a product takes its order from a status other than cancelled and
\* returned to one of the two, and an order that is cancelled or returned keeps
\* its status in every later call; so at most one call adds an order's
\* quantities back.
C21_ReleasedAtMostOnce ==
    [][/\ (/\ ret'.op \in {"cancel_order", "process_refund", "submit_order"}
           /\ \E i \in DOMAIN products_db :
                 products_db'[i].stock > products_db[i].stock)
          => /\ ret'.order_id \in DOMAIN orders_db
             /\ orders_db[ret'.order_id].status \notin {"cancelled", "returned"}
             /\ orders_db'[ret'.order_id].status \in {"cancelled", "returned"}
       /\ \A o \in DOMAIN orders_db :
             orders_db[o].status \in {"cancelled", "returned"}
                => orders_db'[o].status = orders_db[o].status]_vars

\* C21 witness: a refund was asked for an order already cancelled with its
\* stock released, and was refused.
C21_Witness ==
    /\ ret.op = "process_refund"
    /\ ret.code = "INVALID_STATE"
    /\ orders_db[ret.order_id].status = "cancelled"
    /\ orders_db[ret.order_id].items # <<>>
    /\ products_db = before.products

\* Total quantity of product i over the items of the orders of odb that are
\* neither cancelled nor returned.
RECURSIVE C22_Held(_, _, _)
C22_Held(odb, ids, i) ==
    IF ids = {} THEN 0
    ELSE LET o == CHOOSE x \in ids : TRUE
         IN  (IF odb[o].status \in {"cancelled", "returned"} THEN 0
              ELSE QuantityOf(odb[o].items, i))
             + C22_Held(odb, ids \ {o}, i)

\* C22: with orders created, submitted and cancelled only, every call leaves
\* the sum of a product's stock and of its quantities in the orders that are
\* neither cancelled nor returned as it was; with no order at the start that
\* sum is the initial stock, so the stock never exceeds it.
C22_StockConserved ==
    [][\A i \in DOMAIN products_db :
          products_db'[i].stock + C22_Held(orders_db', DOMAIN orders_db', i)
             = products_db[i].stock + C22_Held(orders_db, DOMAIN orders_db, i)]_vars

\* C23: after update_inventory has answered success with new_stock =
\* new_quantity the product's stock is new_quantity, and after
\* sync_single_product has returned True the stock of the product that has the
\* item's sku is the item's quantity; a target below zero is not answered
\* with success.
C23_ReportedStockIsStored ==
    /\ (ret.op = "update_inventory" /\ ret.code = "success") =>
          /\ products_db[ret.product_id].stock = ret.new_stock
          /\ ret.new_stock >= 0
    /\ (ret.op = "sync_single_product" /\ ret.value) =>
          /\ ret.item.quantity >= 0
          /\ \E i \in DOMAIN products_db :
                /\ "sku" \in DOMAIN products_db[i]
                /\ products_db[i].sku = ret.item.sku
                /\ products_db[i].stock = ret.item.quantity

\* C24 as stated: an order that create_order has stored is driven, by calls of
\* create_order, submit_order, cancel_order, process_refund and update_order
\* alone, to a successful process_refund, unless the client cancels it.
C24_RefundReachable ==
    (orders_db # <<>>) ~>
        \/ ret.op = "process_refund" /\ ret.code = "success"
        \/ \E o \in DOMAIN orders_db : orders_db[o].status = "cancelled"

\* C24 amended: with the operations of order_service.py alone an order is only
\* ever created, pending or cancelled, update_order changes nothing, and
\* process_refund never succeeds.
C24_ServiceStopsAtPending ==
    /\ \A o \in DOMAIN orders_db :
          orders_db[o].status \in {"created", "pending", "cancelled"}
    /\ ret.op = "process_refund" => ret.code \in {"NOT_FOUND", "INVALID_STATE"}
    /\ ret.op = "update_order" => Tables = before

\* C24 witness: the refund of a submitted order was refused.
C24_Witness ==
    /\ ret.op = "process_refund"
    /\ ret.code = "INVALID_STATE"
    /\ orders_db[ret.order_id].status = "pending"

\* An entry with the id n is in the queue.
C25_Queued(n) == \E i \in 1..Len(queue) : queue[i].id = n
C25_QueuedKnown(n) ==
    \E i \in 1..Len(queue) :
        /\ queue[i].id = n
        /\ queue[i].notification.channel \in {"email", "sms", "push", "webhook"}

\* C25: process_queue called again and again with a positive batch size sends
\* and removes every queued notification of a known channel, whatever else is
\* in the queue.
C25_KnownChannelSent ==
    \A n \in 1..MaxEnqueued : C25_QueuedKnown(n) ~> ~C25_Queued(n)

\* C26: the queue is sorted by priority, entries of one priority are in the
\* order they were enqueued, no entry is marked sent, and what a process_queue
\* call takes out of the queue are entries of its batch with a known channel,
\* everything else staying in its order.
C26_QueueOrdered ==
    /\ \A i, j \in 1..Len(queue) :
          i < j => /\ queue[i].priority <= queue[j].priority
                   /\ queue[i].priority = queue[j].priority
                         => queue[i].id < queue[j].id
    /\ \A i \in 1..Len(queue) : queue[i].status # "sent"
    /\ ret.op = "process_queue" =>
          LET old == before.queue
              k == SliceEnd(Len(old), ret.batch_size)
              stays(i) == i > k \/ ~dispatch_notification(old[i].notification)
              ids(q) == [i \in 1..Len(q) |-> q[i].id]
              kept == SelectSeq(ids(old),
                                LAMBDA n : \E i \in 1..Len(old) :
                                              old[i].id = n /\ stays(i))
          IN  /\ ids(queue) = kept
              /\ \A i \in 1..Len(queue) : \E j \in 1..Len(old) :
                    /\ old[j].id = queue[i].id
                    /\ old[j].notification = queue[i].notification
                    /\ old[j].priority = queue[i].priority

\* A batch of a failed and a known-channel entry of one priority, enqueued
\* behind an entry that is still queued, has been processed: the known one is
\* gone, the failed one is still in front of the entry outside the batch.
C26_Witness ==
    /\ ret.op = "process_queue"
    /\ ret.processed = 1
    /\ ret.errors = 1
    /\ Len(queue) = 2
    /\ queue[1].status = "failed"
    /\ queue[2].status = "queued"
    /\ \E i, j \in 1..Len(before.queue) :
          /\ i < j
          /\ before.queue[i].priority = before.queue[j].priority
          /\ before.queue[i].id < before.queue[j].id

\* C27: between two calls a stored payment changes only by a successful
\* retry_failed_payment taking it from failed to completed or a successful
\* refund_payment taking it from completed to refunded; refund_payment succeeds
\* on a completed payment only, a refunded payment never changes again, and a
\* rejected retry_failed_payment or refund_payment leaves every payment as it
\* was.
C27_PaymentLifecycle ==
    LET old == before.payments
    IN  /\ \A p \in DOMAIN old :
              /\ p \in DOMAIN payments_db
              /\ old[p].status = "refunded" => payments_db[p] = old[p]
              /\ payments_db[p] # old[p] =>
                    /\ ret.op \in {"retry_failed_payment", "refund_payment"}
                    /\ ret.code = "success"
                    /\ ret.payment_id = p
                    /\ payments_db[p] = [old[p] EXCEPT !.status = payments_db[p].status]
                    /\ <<ret.op, old[p].status, payments_db[p].status>> \in
                          {<<"retry_failed_payment", "failed", "completed">>,
                           <<"refund_payment", "completed", "refunded">>}
        /\ ret.op = "refund_payment" /\ ret.code = "success" =>
              /\ old[ret.payment_id].status = "completed"
              /\ payments_db[ret.payment_id].status = "refunded"
        /\ /\ ret.op \in {"retry_failed_payment", "refund_payment"}
           /\ ret.code # "success"
           => payments_db = old

\* A refunded payment has been handed to refund_payment or
\* retry_failed_payment again and the call was refused.
C27_Witness ==
    /\ ret.op \in {"retry_failed_payment", "refund_payment"}
    /\ ret.code = "INVALID_STATE"
    /\ ret.payment_id \in DOMAIN payments_db
    /\ payments_db[ret.payment_id].status = "refunded"
    /\ \E p \in DOMAIN payments_db : payments_db[p].status = "completed"

\* The payments stored for the order o.
C28_PaymentsOf(o) == {p \in DOMAIN payments_db : payments_db[p].order_id = o}

\* C28: a handle_checkout call that stores a payment or a notification has
\* moved its order from created to pending; a call whose submit_order failed
\* leaves orders, payments and notifications as they were; and however often
\* an order is checked out, it has at most one payment.
C28_PaymentOnlyAfterSubmit ==
    /\ ret.op = "handle_checkout" =>
          /\ (payments_db # before.payments \/ notifications_db # before.notifications)
                => /\ ret.order_id \in DOMAIN before.orders
                   /\ before.orders[ret.order_id].status = "created"
                   /\ orders_db[ret.order_id].status = "pending"
          /\ ret.code \in {"INVALID", "STATE_ERROR"}
                => /\ payments_db = before.payments
                   /\ notifications_db = before.notifications
                   /\ orders_db = before.orders
    /\ \A o \in OrderIds \cup {"o0"} : Cardinality(C28_PaymentsOf(o)) <= 1

\* An order that already has its payment and its confirmation has been
\* checked out a second time, and the call was refused at submit_order.
C28_Witness ==
    /\ ret.op = "handle_checkout"
    /\ ret.code = "STATE_ERROR"
    /\ orders_db[ret.order_id].status = "pending"
    /\ Cardinality(C28_PaymentsOf(ret.order_id)) = 1
    /\ notifications_db # <<>>

\* The stored orders of the user u.
C29_OrdersOf(u) == {o \in DOMAIN orders_db : orders_db[o].user_id = u}

\* C29: list_orders_by_user(u) returns the stored orders of u, each once and
\* nothing else, and count_orders(u) is their number.
C29_IndexConsistent ==
    /\ ret.op = "list_orders_by_user" =>
          /\ \A i \in 1..Len(ret.orders) :
                /\ ret.orders[i].id \in C29_OrdersOf(ret.user_id)
                /\ ret.orders[i] = orders_db[ret.orders[i].id]
                /\ \A j \in 1..Len(ret.orders) :
                      ret.orders[j].id = ret.orders[i].id => j = i
          /\ \A o \in C29_OrdersOf(ret.user_id) :
                \E i \in 1..Len(ret.orders) : ret.orders[i].id = o
    /\ ret.op = "count_orders" =>
          ret.count = Cardinality(C29_OrdersOf(ret.user_id))
====
